---- MODULE Spec2Model ----
(***************************************************************************)
(* Model of the Content-Security-Policy middleware (src/src/index.ts).     *)
(*                                                                         *)
(* Strings are sequences of one-character strings, so that dashify, the    *)
(* name and value validation and the header serialisation are computed     *)
(* character by character as the source does.  Arrays live in a heap       *)
(* (reference -> elements) because the source stores and copies array      *)
(* references, never array contents.                                       *)
(***************************************************************************)
EXTENDS Integers, Sequences, FiniteSets, TLC

VARIABLES heap, options, copy, state, setupError, headerName,
          normalizedDirectives, setupPolicy, responses, mutations

vars == <<heap, options, copy, state, setupError, headerName,
          normalizedDirectives, setupPolicy, responses, mutations>>

(***************************************************************************)
(* Bounds                                                                  *)
(***************************************************************************)
MaxEntries == 2
MaxRequests == 2
MaxMutations == 2

(***************************************************************************)
(* String constants of the source                                          *)
(***************************************************************************)
LowerLetters == <<"a", "b", "c", "d", "e", "f", "g", "h", "i", "j", "k", "l", "m",
                  "n", "o", "p", "q", "r", "s", "t", "u", "v", "w", "x", "y", "z">>
UpperLetters == <<"A", "B", "C", "D", "E", "F", "G", "H", "I", "J", "K", "L", "M",
                  "N", "O", "P", "Q", "R", "S", "T", "U", "V", "W", "X", "Y", "Z">>
Digits == <<"0", "1", "2", "3", "4", "5", "6", "7", "8", "9">>

Range(s) == {s[i] : i \in 1..Len(s)}

S_defaultSrcKebab == <<"d", "e", "f", "a", "u", "l", "t", "-", "s", "r", "c">>
S_baseUri == <<"b", "a", "s", "e", "-", "u", "r", "i">>
S_blockAllMixedContent == <<"b", "l", "o", "c", "k", "-", "a", "l", "l", "-", "m", "i", "x", "e", "d", "-", "c", "o", "n", "t", "e", "n", "t">>
S_fontSrc == <<"f", "o", "n", "t", "-", "s", "r", "c">>
S_frameAncestors == <<"f", "r", "a", "m", "e", "-", "a", "n", "c", "e", "s", "t", "o", "r", "s">>
S_imgSrc == <<"i", "m", "g", "-", "s", "r", "c">>
S_objectSrc == <<"o", "b", "j", "e", "c", "t", "-", "s", "r", "c">>
S_scriptSrcKebab == <<"s", "c", "r", "i", "p", "t", "-", "s", "r", "c">>
S_scriptSrcAttr == <<"s", "c", "r", "i", "p", "t", "-", "s", "r", "c", "-", "a", "t", "t", "r">>
S_styleSrc == <<"s", "t", "y", "l", "e", "-", "s", "r", "c">>
S_upgradeInsecureRequests == <<"u", "p", "g", "r", "a", "d", "e", "-", "i", "n", "s", "e", "c", "u", "r", "e", "-", "r", "e", "q", "u", "e", "s", "t", "s">>
S_self == <<"'", "s", "e", "l", "f", "'">>
S_https == <<"h", "t", "t", "p", "s", ":">>
S_data == <<"d", "a", "t", "a", ":">>
S_none == <<"'", "n", "o", "n", "e", "'">>
S_unsafeInline == <<"'", "u", "n", "s", "a", "f", "e", "-", "i", "n", "l", "i", "n", "e", "'">>
S_defaultSrcCamel == <<"d", "e", "f", "a", "u", "l", "t", "S", "r", "c">>
S_scriptSrcCamel == <<"s", "c", "r", "i", "p", "t", "S", "r", "c">>
S_enforce == <<"C", "o", "n", "t", "e", "n", "t", "-", "S", "e", "c", "u", "r", "i", "t", "y", "-", "P", "o", "l", "i", "c", "y">>
S_reportOnly == <<"C", "o", "n", "t", "e", "n", "t", "-", "S", "e", "c", "u", "r", "i", "t", "y", "-", "P", "o", "l", "i", "c", "y", "-", "R", "e", "p", "o", "r", "t", "-", "O", "n", "l", "y">>

(***************************************************************************)
(* Values                                                                  *)
(***************************************************************************)
NoRef == <<"none", 0>>

\* an element of a directive value list: a literal string or a producer
Lit(s) == [kind |-> "str", s |-> s]
Fn == [kind |-> "fn", s |-> <<>>]

\* a raw directive value held under a key of a directives object
StringValue(s) == [kind |-> "string", s |-> s, ref |-> NoRef]
FalsyValue(k) == [kind |-> k, s |-> <<>>, ref |-> NoRef]
dangerouslyDisableDefaultSrc == [kind |-> "symbol", s |-> <<>>, ref |-> NoRef]
ArrayValue(r) == [kind |-> "array", s |-> <<>>, ref |-> r]

FalsyKinds == {"undefined", "null", "false", "zero"}

(***************************************************************************)
(* DEFAULT_DIRECTIVES: the object's keys in order, each holding a          *)
(* reference to an array; the arrays' contents are in the heap.            *)
(***************************************************************************)
DefaultKeys == <<S_defaultSrcKebab, S_baseUri, S_blockAllMixedContent, S_fontSrc,
                 S_frameAncestors, S_imgSrc, S_objectSrc, S_scriptSrcKebab,
                 S_scriptSrcAttr, S_styleSrc, S_upgradeInsecureRequests>>

DefaultLists == << <<Lit(S_self)>>,
                   <<Lit(S_self)>>,
                   <<>>,
                   <<Lit(S_self), Lit(S_https), Lit(S_data)>>,
                   <<Lit(S_self)>>,
                   <<Lit(S_self), Lit(S_data)>>,
                   <<Lit(S_none)>>,
                   <<Lit(S_self)>>,
                   <<Lit(S_none)>>,
                   <<Lit(S_self), Lit(S_https), Lit(S_unsafeInline)>>,
                   <<>> >>

DefaultRef(k) == <<"default", k>>

DEFAULT_DIRECTIVES ==
    [k \in 1..Len(DefaultKeys) |-> [key |-> DefaultKeys[k], value |-> ArrayValue(DefaultRef(k))]]

\* { ...DEFAULT_DIRECTIVES }: a new object with the same keys and the same
\* array references
getDefaultDirectives == [k \in 1..Len(DEFAULT_DIRECTIVES) |-> DEFAULT_DIRECTIVES[k]]

(***************************************************************************)
(* Small utilities                                                         *)
(***************************************************************************)
ToLowerCase(c) ==
    IF \E i \in 1..Len(UpperLetters) : UpperLetters[i] = c
    THEN LowerLetters[CHOOSE i \in 1..Len(UpperLetters) : UpperLetters[i] = c]
    ELSE c

RECURSIVE dashify_noHyphen(_)
dashify_noHyphen(str) ==
    IF str = <<>> THEN <<>>
    ELSE <<ToLowerCase(Head(str))>> \o dashify_noHyphen(Tail(str))

RECURSIVE dashify(_)
dashify(str) ==
    IF str = <<>> THEN <<>>
    ELSE IF Head(str) \in Range(UpperLetters)
         THEN <<"-", ToLowerCase(Head(str))>> \o dashify(Tail(str))
         ELSE <<Head(str)>> \o dashify(Tail(str))

isDirectiveValueInvalid_semicolonOnly(directiveValue) ==
    \E i \in 1..Len(directiveValue) : directiveValue[i] = ";"

isDirectiveValueInvalid(directiveValue) ==
    \E i \in 1..Len(directiveValue) : directiveValue[i] \in {";", ","}

NameChars == Range(LowerLetters) \cup Range(UpperLetters) \cup Range(Digits) \cup {"-"}

isDirectiveNameInvalid(rawDirectiveName) ==
    \/ Len(rawDirectiveName) = 0
    \/ \E i \in 1..Len(rawDirectiveName) : rawDirectiveName[i] \notin NameChars

(***************************************************************************)
(* normalizeDirectives                                                     *)
(***************************************************************************)
Thrown(e) == [error |-> e, result |-> <<>>, heap |-> <<>>]

\* lines 100-122 with every sentinel skipped, whatever the directive name
resolveDirectiveValue_skipAnySentinel(directiveName, rawDirectiveValue) ==
    IF rawDirectiveValue.kind = "string" THEN [kind |-> "wrap", error |-> "none"]
    ELSE IF rawDirectiveValue.kind \in FalsyKinds THEN [kind |-> "throw", error |-> "invalidValue"]
    ELSE IF rawDirectiveValue.kind = "symbol" THEN [kind |-> "continue", error |-> "none"]
    ELSE [kind |-> "asIs", error |-> "none"]

\* lines 100-122: what the loop does with the raw value of one entry.
\*   "wrap"     typeof rawDirectiveValue === "string": [rawDirectiveValue]
\*   "throw"    !rawDirectiveValue, or the sentinel under another name
\*   "continue" the sentinel under default-src
\*   "asIs"     directiveValue = rawDirectiveValue (the same array)
resolveDirectiveValue(directiveName, rawDirectiveValue) ==
    IF rawDirectiveValue.kind = "string" THEN [kind |-> "wrap", error |-> "none"]
    ELSE IF rawDirectiveValue.kind \in FalsyKinds THEN [kind |-> "throw", error |-> "invalidValue"]
    ELSE IF rawDirectiveValue.kind = "symbol"
         THEN IF directiveName = S_defaultSrcKebab
              THEN [kind |-> "continue", error |-> "none"]
              ELSE [kind |-> "throw", error |-> "disableNonDefault"]
    ELSE [kind |-> "asIs", error |-> "none"]

\* lines 123-131: some literal string element contains ';' or ','
hasInvalidElement(elements) ==
    \E i \in 1..Len(elements) :
        elements[i].kind = "str" /\ isDirectiveValueInvalid(elements[i].s)

\* lines 136-147 with the default-src test made on the result
postConditions_resultOnly(result, directiveNamesSeen) ==
    IF Len(result) = 0 THEN "noDirectives"
    ELSE IF ~ \E i \in 1..Len(result) : result[i].directiveName = S_defaultSrcKebab
         THEN "needsDefaultSrc"
    ELSE "none"

\* lines 136-147
postConditions(result, directiveNamesSeen) ==
    IF Len(result) = 0 THEN "noDirectives"
    ELSE IF S_defaultSrcKebab \notin directiveNamesSeen THEN "needsDefaultSrc"
    ELSE "none"

FreshRef(i) == <<"fresh", i>>

\* lines 73-134: the loop over the own keys of rawDirectives from entry i on
RECURSIVE normalizeLoop(_, _, _, _, _)
normalizeLoop(rawDirectives, i, result, directiveNamesSeen, h) ==
    IF i > Len(rawDirectives)
    THEN LET e == postConditions(result, directiveNamesSeen)
         IN  IF e # "none" THEN Thrown(e)
             ELSE [error |-> "none", result |-> result, heap |-> h]
    ELSE
    LET rawDirectiveName == rawDirectives[i].key
        rawDirectiveValue == rawDirectives[i].value
    IN  IF isDirectiveNameInvalid(rawDirectiveName) THEN Thrown("invalidName")
        ELSE
        LET directiveName == dashify(rawDirectiveName)
        IN  IF directiveName \in directiveNamesSeen THEN Thrown("duplicate")
            ELSE
            LET seen == directiveNamesSeen \cup {directiveName}
                r == resolveDirectiveValue(directiveName, rawDirectiveValue)
            IN  IF r.kind = "throw" THEN Thrown(r.error)
                ELSE IF r.kind = "continue"
                     THEN normalizeLoop(rawDirectives, i + 1, result, seen, h)
                ELSE
                LET ref == IF r.kind = "wrap" THEN FreshRef(i) ELSE rawDirectiveValue.ref
                    h2 == IF r.kind = "wrap"
                          THEN (FreshRef(i) :> <<Lit(rawDirectiveValue.s)>>) @@ h
                          ELSE h
                IN  IF hasInvalidElement(h2[ref]) THEN Thrown("invalidValue")
                    ELSE normalizeLoop(rawDirectives, i + 1,
                            Append(result, [directiveName |-> directiveName,
                                            directiveValue |-> ref]),
                            seen, h2)

\* lines 65-148.  opts.given is whether the options carry a directives key
normalizeDirectives(opts, h) ==
    LET rawDirectives == IF opts.given THEN opts.directives ELSE getDefaultDirectives
    IN  normalizeLoop(rawDirectives, 1, <<>>, {}, h)

(***************************************************************************)
(* getHeaderValue                                                          *)
(***************************************************************************)
\* what a producer does when called with (req, res)
Returns(s) == [kind |-> "string", s |-> s]
Raises == [kind |-> "raise", s |-> <<>>]

\* lines 161-165: directiveValue += " " + (element or element(req, res)),
\* from element i on; a raising producer ends the loop
RECURSIVE concatElements(_, _, _, _)
concatElements(elements, i, acc, ret) ==
    IF i > Len(elements) THEN [threw |-> FALSE, s |-> acc]
    ELSE IF elements[i].kind = "fn"
         THEN IF ret.kind = "raise" THEN [threw |-> TRUE, s |-> <<>>]
              ELSE concatElements(elements, i + 1, acc \o <<" ">> \o ret.s, ret)
    ELSE concatElements(elements, i + 1, acc \o <<" ">> \o elements[i].s, ret)

\* lines 167-177 with an invalid value dropped instead of reported
renderDirective_dropInvalid(directiveName, directiveValue) ==
    IF directiveValue = <<>> \/ isDirectiveValueInvalid(directiveValue)
    THEN [error |-> FALSE, s |-> directiveName]
    ELSE [error |-> FALSE, s |-> directiveName \o directiveValue]

\* lines 167-177
renderDirective(directiveName, directiveValue) ==
    IF directiveValue = <<>> THEN [error |-> FALSE, s |-> directiveName]
    ELSE IF isDirectiveValueInvalid(directiveValue) THEN [error |-> TRUE, s |-> directiveName]
    ELSE [error |-> FALSE, s |-> directiveName \o directiveValue]

RECURSIVE join_trailing(_)
join_trailing(result) ==
    IF result = <<>> THEN <<>>
    ELSE Head(result) \o <<";">> \o join_trailing(Tail(result))

\* line 180: result.join(";")
RECURSIVE join(_)
join(result) ==
    IF result = <<>> THEN <<>>
    ELSE IF Len(result) = 1 THEN Head(result)
    ELSE Head(result) \o <<";">> \o join(Tail(result))

\* lines 157-180 from directive i on
RECURSIVE headerLoop(_, _, _, _, _)
headerLoop(nd, i, result, ret, h) ==
    IF i > Len(nd) THEN [kind |-> "string", s |-> join(result)]
    ELSE
    LET c == concatElements(h[nd[i].directiveValue], 1, <<>>, ret)
    IN  IF c.threw THEN [kind |-> "throw", s |-> <<>>]
        ELSE
        LET d == renderDirective(nd[i].directiveName, c.s)
        IN  IF d.error THEN [kind |-> "error", s |-> d.s]
            ELSE headerLoop(nd, i + 1, Append(result, d.s), ret, h)

\* lines 150-181.  ret is what the producers return for this (req, res)
getHeaderValue(ret, nd, h) == headerLoop(nd, 1, <<>>, ret, h)

(***************************************************************************)
(* Inputs: the directives objects a caller can write, the producers'       *)
(* behaviours                                                              *)
(***************************************************************************)
S_illegalName == <<"a", ";">>
S_dirtyLiteral == <<"a", ",", "b">>
S_nonce == <<"n", "1">>
S_otherNonce == <<"n", "2">>
S_nonceSemicolon == <<"n", ";", "x">>
S_nonceComma == <<"n", ",", "x">>

RawNames == {S_defaultSrcCamel, S_defaultSrcKebab, S_scriptSrcCamel, S_scriptSrcKebab,
             S_illegalName, <<>>}

\* a value as written in an object literal: arrays are given by their elements
InputArray(elems) == [kind |-> "array", s |-> <<>>, elems |-> elems]
InputOther(v) == [kind |-> v.kind, s |-> v.s, elems |-> <<>>]

RawValues ==
    {InputOther(StringValue(S_self)), InputOther(StringValue(<<>>)),
     InputOther(dangerouslyDisableDefaultSrc)}
    \cup {InputOther(FalsyValue(k)) : k \in FalsyKinds}
    \cup {InputArray(<<>>), InputArray(<<Lit(S_self)>>), InputArray(<<Lit(S_self), Fn>>),
          InputArray(<<Lit(S_dirtyLiteral)>>)}

Entries == {[key |-> k, value |-> v] : k \in RawNames, v \in RawValues}

\* objects of at most MaxEntries own keys; the keys of an object are distinct
DirectiveObjects ==
    UNION {{m \in [1..n -> Entries] : \A i, j \in 1..n : i # j => m[i].key # m[j].key}
           : n \in 0..MaxEntries}

NoDirectives == [given |-> FALSE, directives |-> <<>>]
Configs == {NoDirectives} \cup {[given |-> TRUE, directives |-> d] : d \in DirectiveObjects}

ProducerReturns == {Returns(S_nonce), Returns(S_otherNonce), Returns(S_nonceSemicolon),
                    Returns(S_nonceComma), Raises}

OptionsRef(i) == <<"options", i>>

\* the options object once built: its arrays are allocated in the heap
allocate(input, reportOnly) ==
    [given |-> input.given,
     reportOnly |-> reportOnly,
     directives |-> [i \in 1..Len(input.directives) |->
        [key |-> input.directives[i].key,
         value |-> IF input.directives[i].value.kind = "array"
                   THEN ArrayValue(OptionsRef(i))
                   ELSE [kind |-> input.directives[i].value.kind,
                         s |-> input.directives[i].value.s, ref |-> NoRef]]]]

allocatedArrays(input) ==
    [r \in {OptionsRef(i) : i \in {j \in 1..Len(input.directives) :
                                      input.directives[j].value.kind = "array"}}
        |-> input.directives[r[2]].value.elems]

\* the directive names and value lists a policy denotes in heap h
resolve(nd, h) ==
    [i \in 1..Len(nd) |-> [directiveName |-> nd[i].directiveName,
                           values |-> h[nd[i].directiveValue]]]

(***************************************************************************)
(* State                                                                   *)
(***************************************************************************)
NoCopy == [held |-> FALSE, directives |-> <<>>]

Init ==
    /\ heap = [r \in {DefaultRef(k) : k \in 1..Len(DefaultKeys)} |-> DefaultLists[r[2]]]
    /\ options = allocate(NoDirectives, FALSE)
    /\ copy = NoCopy
    /\ state = "init"
    /\ setupError = "none"
    /\ headerName = <<>>
    /\ normalizedDirectives = <<>>
    /\ setupPolicy = <<>>
    /\ responses = <<>>
    /\ mutations = 0

(***************************************************************************)
(* contentSecurityPolicy(options): lines 183-227                           *)
(***************************************************************************)
\* lines 208-210
chooseHeaderName(reportOnly) == IF reportOnly THEN S_reportOnly ELSE S_enforce

contentSecurityPolicy(opts, h) ==
    /\ state = "init"
    /\ options' = opts
    /\ LET n == normalizeDirectives(opts, h)
       IN  IF n.error = "none"
           THEN /\ state' = "configured"
                /\ setupError' = "none"
                /\ headerName' = chooseHeaderName(opts.reportOnly)
                /\ normalizedDirectives' = n.result
                /\ heap' = n.heap
                /\ setupPolicy' = resolve(n.result, n.heap)
           ELSE /\ state' = "threw"
                /\ setupError' = n.error
                /\ heap' = h
                /\ UNCHANGED <<headerName, normalizedDirectives, setupPolicy>>
    /\ UNCHANGED <<responses, mutations>>

\* the caller writes an options object and passes it
Setup(input, reportOnly) ==
    /\ contentSecurityPolicy(allocate(input, reportOnly), allocatedArrays(input) @@ heap)
    /\ UNCHANGED copy

\* the caller passes the object it got from getDefaultDirectives, as edited
SetupFromCopy(reportOnly) ==
    /\ copy.held
    /\ contentSecurityPolicy([given |-> TRUE, reportOnly |-> reportOnly,
                              directives |-> copy.directives], heap)
    /\ copy' = NoCopy

(***************************************************************************)
(* contentSecurityPolicyMiddleware(req, res, next): lines 214-226          *)
(***************************************************************************)
\* what one call of the handler does: the setHeader calls on res, the calls
\* of next with their argument, and whether the call ended by an exception
respond(ret, result, name) ==
    IF result.kind = "throw"
    THEN [ret |-> ret, setHeader |-> <<>>, next |-> <<>>, threw |-> TRUE]
    ELSE IF result.kind = "error"
    THEN [ret |-> ret, setHeader |-> <<>>, next |-> <<"error">>, threw |-> FALSE]
    ELSE [ret |-> ret, setHeader |-> <<[name |-> name, value |-> result.s]>>,
          next |-> <<"none">>, threw |-> FALSE]

contentSecurityPolicyMiddleware(ret) ==
    /\ state = "configured"
    /\ Len(responses) < MaxRequests
    /\ responses' = Append(responses,
            respond(ret, getHeaderValue(ret, normalizedDirectives, heap), headerName))
    /\ UNCHANGED <<heap, options, copy, state, setupError, headerName,
                   normalizedDirectives, setupPolicy, mutations>>

(***************************************************************************)
(* The caller's own code acting on the objects it holds                    *)
(***************************************************************************)
PushedElements == {Lit(<<"x">>), Lit(<<"x", ";">>)}
EditedKeys == {1, 3}

\* const copy = contentSecurityPolicy.getDefaultDirectives()
GetDefaults ==
    /\ copy' = [held |-> TRUE, directives |-> getDefaultDirectives]
    /\ UNCHANGED <<heap, options, state, setupError, headerName,
                   normalizedDirectives, setupPolicy, responses, mutations>>

RemoveAt(s, k) == [i \in 1..(Len(s) - 1) |-> IF i < k THEN s[i] ELSE s[i + 1]]

\* delete copy[key]
CopyDelete(k) ==
    /\ copy.held /\ mutations < MaxMutations
    /\ k \in 1..Len(copy.directives)
    /\ copy' = [copy EXCEPT !.directives = RemoveAt(@, k)]
    /\ mutations' = mutations + 1
    /\ UNCHANGED <<heap, options, state, setupError, headerName,
                   normalizedDirectives, setupPolicy, responses>>

\* copy[key] = "'none'"
CopySet(k) ==
    /\ copy.held /\ mutations < MaxMutations
    /\ k \in 1..Len(copy.directives)
    /\ copy' = [copy EXCEPT !.directives[k].value = StringValue(S_none)]
    /\ mutations' = mutations + 1
    /\ UNCHANGED <<heap, options, state, setupError, headerName,
                   normalizedDirectives, setupPolicy, responses>>

\* copy[key].push(element)
CopyPush(k, el) ==
    /\ copy.held /\ mutations < MaxMutations
    /\ k \in 1..Len(copy.directives)
    /\ copy.directives[k].value.kind = "array"
    /\ heap' = [heap EXCEPT ![copy.directives[k].value.ref] = Append(@, el)]
    /\ mutations' = mutations + 1
    /\ UNCHANGED <<options, copy, state, setupError, headerName,
                   normalizedDirectives, setupPolicy, responses>>

\* options.directives[key].push(element), after the options were passed
OptionsPush(k, el) ==
    /\ state # "init" /\ mutations < MaxMutations
    /\ k \in 1..Len(options.directives)
    /\ options.directives[k].value.kind = "array"
    /\ heap' = [heap EXCEPT ![options.directives[k].value.ref] = Append(@, el)]
    /\ mutations' = mutations + 1
    /\ UNCHANGED <<options, copy, state, setupError, headerName,
                   normalizedDirectives, setupPolicy, responses>>

\* delete options.directives[key], after the options were passed
OptionsDelete(k) ==
    /\ state # "init" /\ mutations < MaxMutations
    /\ k \in 1..Len(options.directives)
    /\ options' = [options EXCEPT !.directives = RemoveAt(@, k)]
    /\ mutations' = mutations + 1
    /\ UNCHANGED <<heap, copy, state, setupError, headerName,
                   normalizedDirectives, setupPolicy, responses>>

(***************************************************************************)
(* Specifications                                                          *)
(***************************************************************************)
\* the library's operations: one setup, then requests
Next ==
    \/ state = "init" /\ \E input \in Configs, reportOnly \in BOOLEAN : Setup(input, reportOnly)
    \/ state = "configured" /\ \E ret \in ProducerReturns : contentSecurityPolicyMiddleware(ret)

Spec == Init /\ [][Next]_vars

\* the options a caller hands over while it keeps editing what it holds
CallerConfigs ==
    {NoDirectives,
     [given |-> TRUE, directives |->
        <<[key |-> S_defaultSrcCamel, value |-> InputArray(<<Lit(S_self)>>)],
          [key |-> S_scriptSrcCamel, value |-> InputArray(<<Lit(S_self), Fn>>)]>>],
     [given |-> TRUE, directives |->
        <<[key |-> S_defaultSrcKebab, value |-> InputOther(StringValue(S_self))]>>]}

NextCaller ==
    \/ \E input \in CallerConfigs, reportOnly \in BOOLEAN : Setup(input, reportOnly)
    \/ \E reportOnly \in BOOLEAN : SetupFromCopy(reportOnly)
    \/ \E ret \in ProducerReturns : contentSecurityPolicyMiddleware(ret)
    \/ GetDefaults
    \/ \E k \in EditedKeys : CopyDelete(k)
    \/ \E k \in EditedKeys : CopySet(k)
    \/ \E k \in EditedKeys, el \in PushedElements : CopyPush(k, el)
    \/ \E k \in EditedKeys, el \in PushedElements : OptionsPush(k, el)
    \/ \E k \in EditedKeys : OptionsDelete(k)

SpecCaller == Init /\ [][NextCaller]_vars

(***************************************************************************)
(* Vocabulary of the properties, written without the operators above       *)
(***************************************************************************)
Dirty(str) == ";" \in Range(str) \/ "," \in Range(str)

IsDefaultSrcKey(key) == key \in {S_defaultSrcCamel, S_defaultSrcKebab}

\* the other spelling of a directive name, or the name itself if it has none
Counterpart(key) ==
    CASE key = S_defaultSrcCamel -> S_defaultSrcKebab
      [] key = S_defaultSrcKebab -> S_defaultSrcCamel
      [] key = S_scriptSrcCamel -> S_scriptSrcKebab
      [] key = S_scriptSrcKebab -> S_scriptSrcCamel
      [] OTHER -> key

LegalName(key) ==
    key \in {S_defaultSrcCamel, S_defaultSrcKebab, S_scriptSrcCamel, S_scriptSrcKebab}

\* an entry that is acceptable taken by itself
EntryAccepted(e, h) ==
    /\ LegalName(e.key)
    /\ \/ e.value.kind = "string"
       \/ e.value.kind = "symbol" /\ IsDefaultSrcKey(e.key)
       \/ e.value.kind = "array"
          /\ \A i \in 1..Len(h[e.value.ref]) :
                h[e.value.ref][i].kind = "str" => ~Dirty(h[e.value.ref][i].s)

SameDirective(d, i, j) == i # j /\ LegalName(d[i].key) /\ d[j].key = Counterpart(d[i].key)

WellFormed(d, h) ==
    /\ \A i \in 1..Len(d) : EntryAccepted(d[i], h)
    /\ \A i, j \in 1..Len(d) : ~SameDirective(d, i, j)

Disabled(e) == IsDefaultSrcKey(e.key) /\ e.value.kind = "symbol"

HasDefaultSrcEntry(nd) == \E i \in 1..Len(nd) : nd[i].directiveName = S_defaultSrcKebab

HasProducer(nd, h) ==
    \E i \in 1..Len(nd) : \E j \in 1..Len(h[nd[i].directiveValue]) :
        h[nd[i].directiveValue][j].kind = "fn"

RECURSIVE JoinWith(_, _)
JoinWith(strs, sep) ==
    IF Len(strs) = 0 THEN <<>>
    ELSE IF Len(strs) = 1 THEN strs[1]
    ELSE strs[1] \o sep \o JoinWith(SubSeq(strs, 2, Len(strs)), sep)

\* the wire format of section 6: name, then a space and the values joined
\* by single spaces when there are values
ExpectedDirective(d, ret) ==
    IF Len(d.values) = 0 THEN d.directiveName
    ELSE d.directiveName \o <<" ">> \o
         JoinWith([j \in 1..Len(d.values) |->
                     IF d.values[j].kind = "fn" THEN ret.s ELSE d.values[j].s], <<" ">>)

ExpectedHeader(policy, ret) ==
    JoinWith([i \in 1..Len(policy) |-> ExpectedDirective(policy[i], ret)], <<";">>)

Succeeded(r) == Len(r.setHeader) = 1 /\ r.next = <<"none">> /\ ~r.threw
Failed(r) == r.setHeader = <<>> /\ r.next = <<"error">> /\ ~r.threw

(***************************************************************************)
(* C1: every handled request calls next exactly once, and either sets      *)
(* exactly one header, named after reportOnly, and calls next() or sets    *)
(* no header and calls next(error).                                        *)
(***************************************************************************)
C1_NextOnceHeaderOrError ==
    \A i \in 1..Len(responses) :
        /\ Len(responses[i].next) = 1
        /\ \/ /\ Succeeded(responses[i])
              /\ responses[i].setHeader[1].name =
                    (IF options.reportOnly THEN S_reportOnly ELSE S_enforce)
           \/ Failed(responses[i])

(***************************************************************************)
(* C2: a header value that was returned holds no ',' and holds ';' only    *)
(* between two rendered directives; no name, literal or resolved value     *)
(* in it holds ';' or ','.                                                 *)
(***************************************************************************)
C2_NoRawSeparators ==
    \A i \in 1..Len(responses) :
        Len(responses[i].setHeader) > 0 =>
            LET v == responses[i].setHeader[1].value
                policy == resolve(normalizedDirectives, heap)
            IN  /\ "," \notin Range(v)
                /\ Cardinality({k \in 1..Len(v) : v[k] = ";"}) = Len(policy) - 1
                /\ \A k \in 1..Len(policy) :
                      /\ ~Dirty(policy[k].directiveName)
                      /\ \A j \in 1..Len(policy[k].values) :
                            IF policy[k].values[j].kind = "fn"
                            THEN ~Dirty(responses[i].ret.s)
                            ELSE ~Dirty(policy[k].values[j].s)

C2_Witness ==
    \E i \in 1..Len(responses) :
        /\ Len(responses[i].setHeader) = 1
        /\ Len(normalizedDirectives) = 2
        /\ HasProducer(normalizedDirectives, heap)
        /\ ";" \in Range(responses[i].setHeader[1].value)

(***************************************************************************)
(* C3: default-src is required unless explicitly disabled.  A policy       *)
(* without a default-src entry is returned exactly when the default-src    *)
(* key held the sentinel and another directive was added; the disabled     *)
(* default-src alone fails with "no directives"; directives that never     *)
(* name default-src fail with "needs a default-src".  The two errors are   *)
(* those of a configuration whose entries are each acceptable.             *)
(***************************************************************************)
C3_DefaultSrcRequiredUnlessDisabled ==
    (state # "init" /\ options.given) =>
        LET d == options.directives
            disabled == \E i \in 1..Len(d) : Disabled(d[i])
            others == \E i \in 1..Len(d) : ~Disabled(d[i])
            named == \E i \in 1..Len(d) : IsDefaultSrcKey(d[i].key)
        IN  /\ (state = "configured" /\ ~HasDefaultSrcEntry(normalizedDirectives))
                  => (disabled /\ Len(normalizedDirectives) >= 1)
            /\ (WellFormed(d, heap) /\ disabled /\ others)
                  => (state = "configured" /\ ~HasDefaultSrcEntry(normalizedDirectives))
            /\ (WellFormed(d, heap) /\ disabled /\ ~others)
                  => (state = "threw" /\ setupError = "noDirectives")
            /\ (WellFormed(d, heap) /\ Len(d) >= 1 /\ ~named)
                  => (state = "threw" /\ setupError = "needsDefaultSrc")

C3_Witness ==
    /\ state = "configured"
    /\ options.given
    /\ \E i \in 1..Len(options.directives) : Disabled(options.directives[i])
    /\ Len(normalizedDirectives) >= 1
    /\ ~HasDefaultSrcEntry(normalizedDirectives)

(***************************************************************************)
(* C4: the two spellings of a directive name are equivalent.  A            *)
(* configuration holding both fails, with the duplicate-directive error    *)
(* when nothing before the second spelling is rejected; replacing a name   *)
(* by its other spelling gives the same outcome and the same entries; a    *)
(* normalized policy has pairwise distinct directive names.                *)
(***************************************************************************)
C4_SpellingsEquivalent ==
    (state # "init" /\ options.given) =>
        LET d == options.directives
        IN  /\ \A i, j \in 1..Len(d) :
                  (i < j /\ SameDirective(d, i, j)) =>
                      /\ state = "threw"
                      /\ WellFormed(SubSeq(d, 1, j - 1), heap) => setupError = "duplicate"
            /\ \A i \in 1..Len(d) :
                  (Counterpart(d[i].key) # d[i].key
                     /\ \A j \in 1..Len(d) : d[j].key # Counterpart(d[i].key)) =>
                      LET alt == [options EXCEPT !.directives[i].key = Counterpart(@)]
                          n == normalizeDirectives(alt, heap)
                      IN  /\ n.error = setupError
                          /\ n.error = "none" =>
                                /\ n.result = normalizedDirectives
                                /\ resolve(n.result, n.heap) = setupPolicy
            /\ state = "configured" =>
                  \A i, j \in 1..Len(normalizedDirectives) :
                      i # j => normalizedDirectives[i].directiveName
                                  # normalizedDirectives[j].directiveName

C4_Witness ==
    /\ state = "threw"
    /\ setupError = "duplicate"
    /\ \E i, j \in 1..Len(options.directives) :
          /\ options.directives[i].key = S_scriptSrcCamel
          /\ options.directives[j].key = S_scriptSrcKebab

(***************************************************************************)
(* C5: a rendered header value is the directives in policy order joined    *)
(* by ';' with no trailing ';'; a directive without values is its bare     *)
(* name, any other is its name, a space and its values joined by single    *)
(* spaces.  defaultSrc ["'self'"] with blockAllMixedContent [] renders to  *)
(* "default-src 'self';block-all-mixed-content".                           *)
(***************************************************************************)
ExamplePolicy ==
    <<[directiveName |-> S_defaultSrcKebab, directiveValue |-> OptionsRef(1)],
      [directiveName |-> S_blockAllMixedContent, directiveValue |-> OptionsRef(2)]>>

ExampleHeap == (OptionsRef(1) :> <<Lit(S_self)>>) @@ (OptionsRef(2) :> <<>>)

C5_WireFormat ==
    /\ \A i \in 1..Len(responses) :
          Len(responses[i].setHeader) > 0 =>
              LET v == responses[i].setHeader[1].value
              IN  /\ v = ExpectedHeader(resolve(normalizedDirectives, heap), responses[i].ret)
                  /\ v[Len(v)] # ";"
    /\ Len(responses) > 0 =>
          getHeaderValue(responses[1].ret, ExamplePolicy, ExampleHeap) =
              [kind |-> "string",
               s |-> S_defaultSrcKebab \o <<" ">> \o S_self \o <<";">> \o S_blockAllMixedContent]

C5_Witness ==
    \E i \in 1..Len(responses) :
        /\ Len(responses[i].setHeader) = 1
        /\ Len(normalizedDirectives) = 2
        /\ \E k \in 1..2 : heap[normalizedDirectives[k].directiveValue] = <<>>
        /\ \E k \in 1..2 : Len(heap[normalizedDirectives[k].directiveValue]) = 2

(***************************************************************************)
(* C6: requests of one instance are independent and rendering is           *)
(* deterministic.  Two requests whose producers return the same strings    *)
(* get the same header; when the policy calls a producer, a request whose  *)
(* producer returns ';' or ',' fails and sets no header, and every         *)
(* request whose producer returns a clean string succeeds and sets the     *)
(* header, whatever the other requests of the history were.                *)
(***************************************************************************)
C6_RequestsIndependent ==
    /\ \A i, j \in 1..Len(responses) :
          responses[i].ret = responses[j].ret => responses[i] = responses[j]
    /\ HasProducer(normalizedDirectives, heap) =>
          \A i \in 1..Len(responses) :
              /\ (responses[i].ret.kind = "string" /\ Dirty(responses[i].ret.s))
                    => Failed(responses[i])
              /\ (responses[i].ret.kind = "string" /\ ~Dirty(responses[i].ret.s))
                    => Succeeded(responses[i])
              /\ \A j \in 1..Len(responses) :
                    (Succeeded(responses[i]) /\ Succeeded(responses[j]))
                      => (responses[i].setHeader = responses[j].setHeader
                            <=> responses[i].ret = responses[j].ret)

C6_Witness ==
    /\ HasProducer(normalizedDirectives, heap)
    /\ Len(responses) >= 2
    /\ Failed(responses[1]) /\ Dirty(responses[1].ret.s)
    /\ Succeeded(responses[2]) /\ ~Dirty(responses[2].ret.s)

(***************************************************************************)
(* C7: whatever callers did to the objects getDefaultDirectives returned,  *)
(* the built-in defaults keep their original value lists, and a setup      *)
(* without directives yields the original defaults.                        *)
(***************************************************************************)
OriginalDefaults ==
    [k \in 1..Len(DefaultKeys) |-> [directiveName |-> DefaultKeys[k], values |-> DefaultLists[k]]]

C7_DefaultsUnchanged ==
    /\ \A k \in 1..Len(DefaultKeys) : heap[DefaultRef(k)] = DefaultLists[k]
    /\ (state = "configured" /\ ~options.given) => setupPolicy = OriginalDefaults

(***************************************************************************)
(* C8: after setup the instance's directive names, their order and their   *)
(* value lists stay those produced at setup.                               *)
(***************************************************************************)
C8_PolicyImmutable ==
    state = "configured" => resolve(normalizedDirectives, heap) = setupPolicy

(***************************************************************************)
(* C9: handling a request never throws; the handler returns having called  *)
(* next with no argument or with an error.                                 *)
(***************************************************************************)
C9_HandlerNeverThrows ==
    \A i \in 1..Len(responses) :
        /\ ~responses[i].threw
        /\ responses[i].next \in {<<"none">>, <<"error">>}

(***************************************************************************)
(* C10: a configuration holding, under a legal name, a falsy value         *)
(* (undefined, null, false, 0 or the empty string) or the sentinel under   *)
(* a name other than default-src fails at setup.                           *)
(***************************************************************************)
RejectedValue(e) ==
    \/ e.value.kind \in {"undefined", "null", "false", "zero"}
    \/ e.value.kind = "symbol" /\ ~IsDefaultSrcKey(e.key)

EmptyString(e) == e.value.kind = "string" /\ e.value.s = <<>>

C10_FalsyIncludingEmptyStringRejected ==
    (state # "init" /\ options.given) =>
        ((\E i \in 1..Len(options.directives) :
              /\ LegalName(options.directives[i].key)
              /\ (RejectedValue(options.directives[i]) \/ EmptyString(options.directives[i])))
            => state = "threw")

\* C10 as amended: the falsy values that are rejected are undefined, null,
\* false and 0; the empty string is a string and is wrapped like any other
C10_NonStringFalsyRejected ==
    (state # "init" /\ options.given) =>
        /\ (\E i \in 1..Len(options.directives) :
              /\ LegalName(options.directives[i].key)
              /\ RejectedValue(options.directives[i]))
            => (state = "threw" /\ normalizedDirectives = <<>>)
        /\ \A i \in 1..Len(options.directives) :
              (/\ WellFormed(SubSeq(options.directives, 1, i - 1), heap)
               /\ LegalName(options.directives[i].key)
               /\ \A j \in 1..(i - 1) : ~SameDirective(options.directives, i, j)
               /\ RejectedValue(options.directives[i]))
                => setupError = (IF options.directives[i].value.kind = "symbol"
                                 THEN "disableNonDefault" ELSE "invalidValue")

C10_Witness ==
    /\ state = "threw"
    /\ setupError = "disableNonDefault"
    /\ Len(options.directives) = 2
    /\ EntryAccepted(options.directives[1], heap)

====
